---- MODULE Spec2Model ----
(***************************************************************************)
(* Model of threeML/bayesian/sampler_base.py: SamplerBase (get_posterior,  *)
(* _log_prior, _log_like, _build_results, restore_*_fit), UnitCubeSampler  *)
(* (_construct_unitcube_posterior) and arg_median.                         *)
(*                                                                         *)
(* Floats are modelled as records [k, v]: k = "fin" with the integer v,    *)
(* or k in {"ninf", "pinf", "nan"}.  The outcome of a call is a float or   *)
(* an escaping exception, k in {"MAV", "Err", "AssertionError",            *)
(* "RuntimeError", "IndexError"}.  Prior densities are 0, 1, 2, 4 and      *)
(* logarithms are taken in base 2, so that ln is exact on integers.        *)
(***************************************************************************)
EXTENDS Integers, Sequences, FiniteSets, TLC

\* ------------------------------------------------------------------ bounds
NPar == 2
MaxVal == 1
NData == 2
MaxEdges == 2

Vals == 0..MaxVal
ParIdx == 1..NPar
DataIdx == 1..NData

\* ------------------------------------------------------ extended floats
Fin(n) == [k |-> "fin", v |-> n]
NInf == [k |-> "ninf", v |-> 0]
PInf == [k |-> "pinf", v |-> 0]
NaN == [k |-> "nan", v |-> 0]
Raise(e) == [k |-> e, v |-> 0]
RaiseAt(e, i) == [k |-> e, v |-> i]
NoneVal == [k |-> "none", v |-> 0]

IsFloat(x) == x.k \in {"fin", "ninf", "pinf", "nan"}
IsRaise(x) == x.k \in {"MAV", "Err", "AssertionError", "RuntimeError", "IndexError"}

\* IEEE-754 addition, as performed by "+" and by nb_sum
AddF(a, b) ==
  IF a.k = "nan" \/ b.k = "nan" THEN NaN
  ELSE IF a.k = "fin" /\ b.k = "fin" THEN Fin(a.v + b.v)
  ELSE IF a.k = "fin" THEN b
  ELSE IF b.k = "fin" THEN a
  ELSE IF a.k = b.k THEN a
  ELSE NaN

\* np.isfinite
isfinite(x) == x.k = "fin"

RECURSIVE SumInts(_, _)
SumInts(s, i) == IF i > Len(s) THEN 0 ELSE s[i] + SumInts(s, i + 1)

\* nb_sum: left-to-right accumulation starting from 0.0
RECURSIVE nb_sum_from(_, _, _)
nb_sum_from(arr, i, acc) ==
  IF i > Len(arr) THEN acc ELSE nb_sum_from(arr, i + 1, AddF(acc, arr[i]))

nb_sum(arr) == nb_sum_from(arr, 1, Fin(0))

\* all sequences over S of length n
RECURSIVE SeqsOfLen(_, _)
SeqsOfLen(S, n) ==
  IF n = 0 THEN {<<>>}
  ELSE {Append(s, x) : s \in SeqsOfLen(S, n - 1), x \in S}

SeqsUpTo(S, lo, hi) == UNION {SeqsOfLen(S, n) : n \in lo..hi}

\* ---------------------------------------------------------- collaborators
\* parameter.prior(x): the prior density of a free parameter at x
PriorKinds == {"uniform", "peaked", "custom"}

\* "uniform" is uniform on [1, 2], "peaked" is positive everywhere, "custom"
\* is a user function that vanishes at 1
Prior(kind, x) ==
  CASE kind = "uniform" -> IF x \in {1, 2} THEN 2 ELSE 0
    [] kind = "peaked" -> IF x = 1 THEN 4 ELSE 1
    [] kind = "custom" -> IF x = 1 THEN 0 ELSE 1

\* math.log, in base 2, on the densities the priors produce
Ln(d) == CASE d = 1 -> 0 [] d = 2 -> 1 [] d = 4 -> 2

\* hasattr(parameter.prior, "from_unit_cube")
HasUnitCube(kind) == kind \in {"uniform", "peaked"}

\* parameter.prior.from_unit_cube(u), u in halves: 0, 1/2, 1 are 0, 1, 2
from_unit_cube(kind, u) ==
  CASE kind = "uniform" -> IF u = 2 THEN 2 ELSE 1
    [] kind = "peaked" -> u
    [] OTHER -> 0

\* dataset._integral_flux(): the model integrated over the input bins e of a
\* dataset (e = 0: the dataset has no input bins and evaluates the model
\* directly); the model raises ModelAssertionViolation outside its valid zone
FluxMax == NPar * MaxVal + MaxEdges - 1

IntegralFlux(e, val) ==
  LET s == SumInts(val, 1) + e
  IN IF s > FluxMax THEN Raise("MAV") ELSE Fin(s)

DataKinds == {"gauss", "poisson", "fragile"}

\* the likelihood of a dataset given the integrated flux f
LikeFromFlux(kind, f) ==
  CASE kind = "gauss" -> Fin(0 - (f - 2) * (f - 2))
    [] kind = "poisson" ->
         CASE f = 0 -> NInf
           [] f = 3 -> PInf
           [] OTHER -> Fin(f - 10)
    [] kind = "fragile" ->
         CASE f = 1 -> Raise("MAV")
           [] f = 2 -> NaN
           [] f = 3 -> Raise("Err")
           [] OTHER -> Fin(0 - 1 - f)

VARIABLES
  value,          \* parameter.value of each free parameter, in order
  priorKind,      \* parameter.prior of each free parameter
  dsKind,         \* the datasets of _data_list, in order
  dsEdges,        \* the input bin edges of each dataset, 0 for None
  share_spectrum, \* _share_spectrum
  op,             \* the call that just returned, "idle" between calls
  arg,            \* its argument, as the caller sees it after the call
  ret,            \* its outcome: the float returned or the exception raised
  returned,       \* the array it returned, <<>> if it returned none
  pre,            \* the parameter values before the call
  likeCalls,      \* the number of _log_like calls it made
  closure,        \* the prior closure handed to the backend, "none" if none
  raw_samples,    \* _raw_samples: one row per draw, one column per parameter
  log_probability_values, \* _log_probability_values: one entry per draw
  samples,        \* _samples: one column of raw_samples per parameter
  use_median_fit, \* threeML_config.bayesian.use_median_fit
  mid,            \* the parameter values before the last restore of a build
  results         \* _results: the model's parameter values it was built at

vars == <<value, priorKind, dsKind, dsEdges, share_spectrum,
          op, arg, ret, returned, pre, likeCalls, closure,
          raw_samples, log_probability_values, samples, use_median_fit,
          mid, results>>

\* dataset.get_log_like(precalc_fluxes=f)
get_log_like_precalc(i, f) == LikeFromFlux(dsKind[i], f.v)

\* dataset.get_log_like(): the dataset integrates the model itself
get_log_like(i, val) ==
  LET f == IntegralFlux(dsEdges[i], val)
  IN IF IsRaise(f) THEN f ELSE LikeFromFlux(dsKind[i], f.v)

\* ------------------------------------------------------ ShareSpectrum plan
\* ShareSpectrum(data_list): datasets with identical input bin edges share a
\* group; the first dataset of a group is its base plugin; a dataset without
\* input bins gets a group of its own whose edges are None (0)
RECURSIVE BuildShare(_, _, _)
BuildShare(i, edges, plan) ==
  IF i > Len(edges) THEN plan
  ELSE LET e == edges[i]
           same == {g \in 1..Len(plan.data_ein_edges) :
                      e # 0 /\ plan.data_ein_edges[g] = e}
       IN IF same # {}
          THEN BuildShare(i + 1, edges,
                 [plan EXCEPT !.data_ebin_connect =
                    Append(@, CHOOSE g \in same : \A h \in same : g <= h)])
          ELSE BuildShare(i + 1, edges,
                 [data_ein_edges |-> Append(plan.data_ein_edges, e),
                  base_plugin_key |-> Append(plan.base_plugin_key, i),
                  data_ebin_connect |->
                    Append(plan.data_ebin_connect, Len(plan.data_ein_edges) + 1)])

ShareSpectrum(edges) ==
  BuildShare(1, edges,
    [data_ein_edges |-> <<>>, base_plugin_key |-> <<>>, data_ebin_connect |-> <<>>])

\* ------------------------------------------------------------- _log_like
\* the loops of _log_like return [exc, arr]: the exception that left the try
\* block (NoneVal if none did) and log_like_values
RECURSIVE UnsharedLoop(_, _, _)
UnsharedLoop(i, arr, val) ==
  IF i > NData THEN [exc |-> NoneVal, arr |-> arr]
  ELSE LET o == get_log_like(i, val)
       IN IF IsRaise(o) THEN [exc |-> o, arr |-> arr]
          ELSE UnsharedLoop(i + 1, Append(arr, o), val)

\* precalc_fluxes: one _integral_flux() call on the base plugin of each group
RECURSIVE PrecalcLoop(_, _, _, _)
PrecalcLoop(g, fluxes, plan, val) ==
  IF g > Len(plan.base_plugin_key) THEN [exc |-> NoneVal, fluxes |-> fluxes]
  ELSE IF plan.data_ein_edges[g] = 0
       THEN PrecalcLoop(g + 1, Append(fluxes, NoneVal), plan, val)
       ELSE LET f == IntegralFlux(dsEdges[plan.base_plugin_key[g]], val)
            IN IF IsRaise(f) THEN [exc |-> f, fluxes |-> fluxes]
               ELSE PrecalcLoop(g + 1, Append(fluxes, f), plan, val)

\* SharedCall handing every dataset the flux of the first group
SharedCall_FirstFlux(i, fluxes, plan, val) ==
  IF plan.data_ein_edges[plan.data_ebin_connect[i]] # 0
  THEN get_log_like_precalc(i, fluxes[1])
  ELSE get_log_like(i, val)

SharedCall(i, fluxes, plan, val) ==
  IF plan.data_ein_edges[plan.data_ebin_connect[i]] # 0
  THEN get_log_like_precalc(i, fluxes[plan.data_ebin_connect[i]])
  ELSE get_log_like(i, val)

RECURSIVE SharedLoop(_, _, _, _, _)
SharedLoop(i, arr, fluxes, plan, val) ==
  IF i > NData THEN [exc |-> NoneVal, arr |-> arr]
  ELSE LET o == SharedCall(i, fluxes, plan, val)
       IN IF IsRaise(o) THEN [exc |-> o, arr |-> arr]
          ELSE SharedLoop(i + 1, Append(arr, o), fluxes, plan, val)

SharedPath(val) ==
  LET plan == ShareSpectrum(dsEdges)
      pre_ == PrecalcLoop(1, <<>>, plan, val)
  IN IF pre_.exc # NoneVal THEN [exc |-> pre_.exc, arr |-> <<>>]
     ELSE SharedLoop(1, <<>>, pre_.fluxes, plan, val)

\* LogLikeFinish without the np.isfinite test
LogLikeFinish_NoFiniteTest(r) ==
  IF r.exc.k = "MAV" THEN NInf
  ELSE IF r.exc # NoneVal THEN r.exc
  ELSE nb_sum(r.arr)

\* the except clauses, the sum and the finiteness check
LogLikeFinish(r) ==
  IF r.exc.k = "MAV" THEN NInf
  ELSE IF r.exc # NoneVal THEN r.exc
  ELSE LET log_like == nb_sum(r.arr)
       IN IF ~isfinite(log_like) THEN NInf ELSE log_like

_log_like(val, share) ==
  LogLikeFinish(IF ~share THEN UnsharedLoop(1, <<>>, val) ELSE SharedPath(val))

\* ----------------------------------------------- get_posterior, _log_prior
\* PriorLoop with the assignment made before the density is tested
RECURSIVE PriorLoop_AssignFirst(_, _, _, _)
PriorLoop_AssignFirst(i, val, log_prior, trial) ==
  IF i > NPar
  THEN [exc |-> NoneVal, rejected |-> FALSE, value |-> val, log_prior |-> log_prior]
  ELSE IF i > Len(trial)
  THEN [exc |-> Raise("IndexError"), rejected |-> FALSE, value |-> val,
        log_prior |-> log_prior]
  ELSE LET prior_value == Prior(priorKind[i], trial[i])
           assigned == [val EXCEPT ![i] = trial[i]]
       IN IF prior_value = 0
          THEN [exc |-> NoneVal, rejected |-> TRUE, value |-> assigned,
                log_prior |-> log_prior]
          ELSE PriorLoop_AssignFirst(i + 1, assigned,
                                     log_prior + Ln(prior_value), trial)

\* the loop over the free parameters shared by get_posterior and _log_prior:
\* [exc, rejected, value, log_prior] when the loop is left
RECURSIVE PriorLoop(_, _, _, _)
PriorLoop(i, val, log_prior, trial) ==
  IF i > NPar
  THEN [exc |-> NoneVal, rejected |-> FALSE, value |-> val, log_prior |-> log_prior]
  ELSE IF i > Len(trial)
  THEN [exc |-> Raise("IndexError"), rejected |-> FALSE, value |-> val,
        log_prior |-> log_prior]
  ELSE LET prior_value == Prior(priorKind[i], trial[i])
       IN IF prior_value = 0
          THEN [exc |-> NoneVal, rejected |-> TRUE, value |-> val,
                log_prior |-> log_prior]
          ELSE PriorLoop(i + 1, [val EXCEPT ![i] = trial[i]],
                         log_prior + Ln(prior_value), trial)

\* get_posterior leaving the loop with break instead of return
get_posterior_Break(trial, val) ==
  IF NPar # Len(trial)
  THEN [ret |-> Raise("AssertionError"), value |-> val, calls |-> 0]
  ELSE LET r == PriorLoop(1, val, 0, trial)
           log_like == _log_like(r.value, share_spectrum)
       IN [ret |-> IF IsRaise(log_like) THEN log_like
                   ELSE AddF(log_like, Fin(r.log_prior)),
           value |-> r.value, calls |-> 1]

\* get_posterior with the length test made after the loop
get_posterior_LateCheck(trial, val) ==
  LET r == PriorLoop(1, val, 0, trial)
  IN IF NPar # Len(trial)
     THEN [ret |-> Raise("AssertionError"), value |-> r.value, calls |-> 0]
     ELSE IF r.rejected
     THEN [ret |-> NInf, value |-> r.value, calls |-> 0]
     ELSE LET log_like == _log_like(r.value, share_spectrum)
          IN [ret |-> IF IsRaise(log_like) THEN log_like
                      ELSE AddF(log_like, Fin(r.log_prior)),
              value |-> r.value, calls |-> 1]

\* get_posterior returning the likelihood without the log-prior
get_posterior_NoPrior(trial, val) ==
  IF NPar # Len(trial)
  THEN [ret |-> Raise("AssertionError"), value |-> val, calls |-> 0]
  ELSE LET r == PriorLoop(1, val, 0, trial)
       IN IF r.rejected
          THEN [ret |-> NInf, value |-> r.value, calls |-> 0]
          ELSE [ret |-> _log_like(r.value, share_spectrum),
                value |-> r.value, calls |-> 1]

\* get_posterior computing the likelihood before the trial values are assigned
get_posterior_Stale(trial, val) ==
  IF NPar # Len(trial)
  THEN [ret |-> Raise("AssertionError"), value |-> val, calls |-> 0]
  ELSE LET r == PriorLoop(1, val, 0, trial)
       IN IF r.rejected
          THEN [ret |-> NInf, value |-> r.value, calls |-> 0]
          ELSE LET log_like == _log_like(val, share_spectrum)
               IN [ret |-> IF IsRaise(log_like) THEN log_like
                           ELSE AddF(log_like, Fin(r.log_prior)),
                   value |-> r.value, calls |-> 1]

\* get_posterior(trial_values): [ret, value, calls] are the outcome, the
\* parameter values left behind and the number of _log_like calls made
get_posterior(trial, val) ==
  IF NPar # Len(trial)
  THEN [ret |-> Raise("AssertionError"), value |-> val, calls |-> 0]
  ELSE LET r == PriorLoop(1, val, 0, trial)
       IN IF r.rejected
          THEN [ret |-> NInf, value |-> r.value, calls |-> 0]
          ELSE LET log_like == _log_like(r.value, share_spectrum)
               IN [ret |-> IF IsRaise(log_like) THEN log_like
                           ELSE AddF(log_like, Fin(r.log_prior)),
                   value |-> r.value, calls |-> 1]

\* _log_prior(trial_values)
_log_prior(trial, val) ==
  LET r == PriorLoop(1, val, 0, trial)
  IN [ret |-> IF r.exc # NoneVal THEN r.exc
              ELSE IF r.rejected THEN NInf ELSE Fin(r.log_prior),
      value |-> r.value, calls |-> 0]

\* ------------------------------------------ _construct_unitcube_posterior
\* the assignment loop of the loglike closure
RECURSIVE AssignLoop(_, _, _)
AssignLoop(i, val, trial) ==
  IF i > NPar THEN [exc |-> NoneVal, value |-> val]
  ELSE IF i > Len(trial) THEN [exc |-> Raise("IndexError"), value |-> val]
  ELSE AssignLoop(i + 1, [val EXCEPT ![i] = trial[i]], trial)

\* loglike(trial_values)
loglike(trial, val) ==
  LET a == AssignLoop(1, val, trial)
  IN IF a.exc # NoneVal THEN [ret |-> a.exc, value |-> a.value, calls |-> 0]
     ELSE [ret |-> _log_like(a.value, share_spectrum), value |-> a.value,
           calls |-> 1]

\* the loop of the prior closures: [exc, params]; the RuntimeError carries
\* the index of the parameter it names
RECURSIVE PriorTransformLoop(_, _)
PriorTransformLoop(i, params) ==
  IF i > NPar THEN [exc |-> NoneVal, params |-> params]
  ELSE IF ~HasUnitCube(priorKind[i])
  THEN [exc |-> RaiseAt("RuntimeError", i), params |-> params]
  ELSE PriorTransformLoop(i + 1,
         [params EXCEPT ![i] = from_unit_cube(priorKind[i], params[i])])

\* the dry run prior([0.5] * n_dim, n_dim, []) is made for the in-place
\* closure only: it sits in the else branch of "if return_copy"
DryRun(return_copy) ==
  IF return_copy THEN NoneVal
  ELSE PriorTransformLoop(1, [i \in 1..NPar |-> 1]).exc

\* ------------------------------------------------------------ the sampler
\* the trial vectors: one parameter short, of the right length, and one entry
\* too long
Trials ==
  SeqsUpTo(Vals, NPar - 1, NPar) \cup {Append(t, 0) : t \in SeqsOfLen(Vals, NPar)}
CubeVals == 0..2
Cubes == SeqsOfLen(CubeVals, NPar)

Config == <<priorKind, dsKind, dsEdges, share_spectrum>>
Run == <<raw_samples, log_probability_values, samples, use_median_fit, mid, results>>

KindSeq == <<"gauss", "poisson", "fragile">>

\* the data lists of the posterior specification: all datasets on the same
\* input bins with the spectrum shared, or on different ones without sharing
DataSetups ==
  {[kinds |-> [i \in DataIdx |-> KindSeq[((i + a) % 3) + 1]],
    edges |-> [i \in DataIdx |-> IF b THEN 1 ELSE i % (MaxEdges + 1)],
    share |-> b] : a \in 1..2, b \in BOOLEAN}

NoCall ==
  /\ op = "idle"
  /\ arg = <<>>
  /\ ret = NoneVal
  /\ returned = <<>>
  /\ pre = value
  /\ likeCalls = 0
  /\ closure = "none"
  /\ mid = <<>>
  /\ results = <<>>

\* no sampling run has been made
NoRun ==
  /\ raw_samples = <<>>
  /\ log_probability_values = <<>>
  /\ samples = <<>>
  /\ use_median_fit = FALSE

\* a sampler after setup: any priors, any current parameter values
Init ==
  /\ value \in SeqsOfLen(Vals, NPar)
  /\ priorKind \in SeqsOfLen(PriorKinds, NPar)
  /\ \E d \in DataSetups :
       /\ dsKind = d.kinds
       /\ dsEdges = d.edges
       /\ share_spectrum = d.share
  /\ NoCall
  /\ NoRun

\* a call that returns r = [ret, value, calls]
Called(name, trial, r) ==
  /\ op' = name
  /\ arg' = trial
  /\ ret' = r.ret
  /\ returned' = <<>>
  /\ pre' = value
  /\ value' = r.value
  /\ likeCalls' = r.calls

GetPosterior ==
  /\ op = "idle"
  /\ \E trial \in Trials :
    /\ \E r \in {get_posterior(trial, value)} : Called("get_posterior", trial, r)
    /\ UNCHANGED <<Config, closure, Run>>

\* the loglike closure, which _construct_unitcube_posterior(return_copy=True)
\* returns whatever the priors are
Loglike ==
  /\ op = "idle"
  /\ \E trial \in Trials :
    /\ \E r \in {loglike(trial, value)} : Called("loglike", trial, r)
    /\ UNCHANGED <<Config, closure, Run>>

\* the call is over: the caller has its outcome and nothing is kept of it
Return ==
  /\ op # "idle"
  /\ op' = "idle"
  /\ arg' = <<>>
  /\ ret' = NoneVal
  /\ returned' = <<>>
  /\ pre' = value
  /\ likeCalls' = 0
  /\ mid' = <<>>
  /\ UNCHANGED <<value, Config, closure, raw_samples, log_probability_values,
                 samples, use_median_fit, results>>

Next ==
  \/ GetPosterior
  \/ Loglike
  \/ Return

Spec == Init /\ [][Next]_vars

\* ---------------------------------------------- _log_like on any data list
InitLike ==
  /\ value \in SeqsOfLen(Vals, NPar)
  /\ priorKind = [i \in ParIdx |-> "peaked"]
  /\ dsKind \in SeqsOfLen(DataKinds, NData)
  /\ dsEdges \in SeqsOfLen(0..MaxEdges, NData)
  /\ share_spectrum \in BOOLEAN
  /\ NoCall
  /\ NoRun

LogLike ==
  /\ op = "idle"
  /\ Called("_log_like", value,
            [ret |-> _log_like(value, share_spectrum), value |-> value, calls |-> 1])
  /\ UNCHANGED <<Config, closure, Run>>

NextLike ==
  \/ LogLike
  \/ Return

SpecLike == InitLike /\ [][NextLike]_vars

\* ------------------------------------------------- the unit-cube closures
InitCube ==
  /\ value \in SeqsOfLen(Vals, NPar)
  /\ priorKind \in SeqsOfLen(PriorKinds, NPar)
  /\ dsKind = [i \in DataIdx |-> "gauss"]
  /\ dsEdges = [i \in DataIdx |-> 0]
  /\ share_spectrum = FALSE
  /\ NoCall
  /\ NoRun

\* _construct_unitcube_posterior(return_copy): the closures reach the
\* backend only if the method returns
Construct ==
  /\ op = "idle"
  /\ \E return_copy \in BOOLEAN :
    LET dry == DryRun(return_copy)
    IN /\ op' = "_construct_unitcube_posterior"
       /\ arg' = <<return_copy>>
       /\ ret' = dry
       /\ returned' = <<>>
       /\ pre' = value
       /\ likeCalls' = 0
       /\ closure' = IF IsRaise(dry) THEN closure
                     ELSE IF return_copy THEN "copy" ELSE "inplace"
       /\ UNCHANGED <<value, Config, Run>>

\* prior(cube): the in-place closure writes into the caller's array and
\* returns nothing, the copying closure leaves it alone and returns the copy
CubePrior ==
  /\ op = "idle"
  /\ closure # "none"
  /\ \E cube \in Cubes :
       LET t == PriorTransformLoop(1, cube)
       IN /\ op' = "prior"
          /\ arg' = IF closure = "inplace" THEN t.params ELSE cube
          /\ ret' = t.exc
          /\ returned' = IF closure = "copy" /\ t.exc = NoneVal THEN t.params ELSE <<>>
          /\ pre' = value
          /\ likeCalls' = 0
  /\ UNCHANGED <<value, Config, closure, Run>>

NextCube ==
  \/ Construct
  \/ CubePrior
  \/ Return

SpecCube == InitCube /\ [][NextCube]_vars

\* ------------------------------------------------- claims on get_posterior
ZeroAt(trial) == {i \in ParIdx : i <= Len(trial) /\ Prior(priorKind[i], trial[i]) = 0}
FirstZero(trial) == CHOOSE k \in ZeroAt(trial) : \A j \in ZeroAt(trial) : k <= j
PosteriorCall == op = "get_posterior"
RightLength == Len(arg) = NPar
Rejected == PosteriorCall /\ RightLength /\ ZeroAt(arg) # {}
Accepted == PosteriorCall /\ RightLength /\ ZeroAt(arg) = {}

\* C1: a trial vector of the right length with a component of prior density
\* 0 makes get_posterior return -inf, whatever the other components are, and
\* _log_like is not called
C1_ZeroPriorRejects ==
  Rejected => ret = NInf /\ likeCalls = 0

\* a rejection by the last parameter while the first one has density 4
C1_Witness ==
  /\ Rejected
  /\ Prior(priorKind[NPar], arg[NPar]) = 0
  /\ Prior(priorKind[1], arg[1]) = 4
  /\ ret = NInf

\* C2: a trial vector of the wrong length makes get_posterior raise
\* AssertionError with every parameter value unchanged and no prior or
\* likelihood evaluated
C2_LengthMismatchFails ==
  PosteriorCall /\ ~RightLength =>
    ret = Raise("AssertionError") /\ value = pre /\ likeCalls = 0

\* a longer trial vector whose first component is in the support of its prior
\* and differs from the value the parameter keeps
C2_Witness ==
  /\ PosteriorCall
  /\ Len(arg) = NPar + 1
  /\ Prior(priorKind[1], arg[1]) # 0
  /\ arg[1] # value[1]
  /\ ret = Raise("AssertionError")

\* the values the datasets return at the parameter values val
DataValues(val) == [i \in DataIdx |-> get_log_like(i, val)]
NoDatasetRaises(val) == \A i \in DataIdx : ~IsRaise(DataValues(val)[i])

RECURSIVE SumOver(_, _)
SumOver(S, f) ==
  IF S = {} THEN Fin(0)
  ELSE LET i == CHOOSE j \in S : TRUE IN AddF(f[i], SumOver(S \ {i}, f))

SumLike(val) == SumOver(DataIdx, DataValues(val))
SumLnPrior(trial) == SumOver(ParIdx, [i \in ParIdx |-> Fin(Ln(Prior(priorKind[i], trial[i])))])

\* C3 as stated: an accepted trial vector is assigned to the parameters and
\* get_posterior returns the sum of the datasets' get_log_like() plus the sum
\* of the log-priors
C3_AsStated ==
  Accepted /\ NoDatasetRaises(arg) =>
    value = arg /\ ret = AddF(SumLike(arg), SumLnPrior(arg))

\* C3 amended: an accepted trial vector is assigned to the parameters, the
\* likelihood is computed once, at the trial values, and get_posterior
\* returns the sum of the datasets' get_log_like() plus the sum of the
\* log-priors when the summed log-likelihood is finite or -inf; it returns
\* -inf when that sum is NaN or +inf
C3_SumOfLikeAndPrior ==
  Accepted =>
    /\ value = arg
    /\ likeCalls = 1
    /\ NoDatasetRaises(arg) =>
         IF SumLike(arg).k \in {"fin", "ninf"}
         THEN ret = AddF(SumLike(arg), SumLnPrior(arg))
         ELSE ret = NInf

\* an accepted call that moved a parameter and returned a finite posterior
\* made of different dataset values and a non-zero log-prior
C3_Witness ==
  /\ Accepted
  /\ NoDatasetRaises(arg)
  /\ value # pre
  /\ ret.k = "fin"
  /\ DataValues(arg)[1] # DataValues(arg)[2]
  /\ SumLnPrior(arg).v > 0

\* the parameters of a model no call has touched yet
Untouched == [i \in ParIdx |-> 0]

\* C9: whatever earlier calls left in the parameters, get_posterior(t) and
\* loglike(t) return what the same call returns on an untouched model: the
\* outcome depends on t alone, so two calls with the same t agree whatever
\* calls were made between them
C9_DependsOnTrialOnly ==
  /\ PosteriorCall => get_posterior(arg, Untouched).ret = ret
  /\ op = "loglike" => loglike(arg, Untouched).ret = ret

\* a finite posterior returned right after a rejection that left the
\* parameters partially updated
C9_Witness ==
  /\ Accepted
  /\ ret.k = "fin"
  /\ pre # arg
  /\ pre # Untouched
  /\ \E t, v \in SeqsOfLen(Vals, NPar) :
       /\ ZeroAt(t) # {}
       /\ get_posterior(t, v).value = pre
       /\ pre # v
       /\ pre # t

\* C10: a rejection whose first zero density is at index k leaves the trial
\* values in the parameters before k and the old values from k on
C10_PartialAssignment ==
  Rejected =>
    \A i \in ParIdx :
      value[i] = IF i < FirstZero(arg) THEN arg[i] ELSE pre[i]

\* a rejection at the last index that changed the first parameter and kept
\* the last one, whose trial value differs
C10_Witness ==
  /\ Rejected
  /\ FirstZero(arg) = NPar
  /\ value[1] = arg[1]
  /\ value[1] # pre[1]
  /\ value[NPar] = pre[NPar]
  /\ value[NPar] # arg[NPar]

\* ----------------------------------------------------- claims on _log_like
LikeCall == op = "_log_like"
RaisedKinds(val) == {DataValues(val)[i].k : i \in {j \in DataIdx : IsRaise(DataValues(val)[j])}}

C5_LogLikeOutcomes ==
  LikeCall =>
    LET raised == RaisedKinds(value)
    IN /\ ret.k \in {"fin", "ninf", "Err"}
       /\ raised = {} =>
            ret = IF SumLike(value).k = "fin" THEN SumLike(value) ELSE NInf
       /\ raised = {"MAV"} => ret = NInf
       /\ raised = {"Err"} => ret = Raise("Err")
       /\ ret.k = "Err" => "Err" \in raised
       /\ ret.k = "fin" => raised = {}

\* a NaN sum turned into -inf on the shared path
C5_Witness ==
  /\ LikeCall
  /\ share_spectrum
  /\ RaisedKinds(value) = {}
  /\ SumLike(value) = NaN
  /\ ret = NInf

\* ------------------------------------------------------------- arg_median
RECURSIVE Insert(_, _)
Insert(x, s) ==
  IF s = <<>> THEN <<x>>
  ELSE IF x <= Head(s) THEN <<x>> \o s
  ELSE <<Head(s)>> \o Insert(x, Tail(s))

RECURSIVE Sort(_)
Sort(a) == IF a = <<>> THEN <<>> ELSE Insert(Head(a), Sort(Tail(a)))

\* np.partition(a, k)[k]: the element of rank k, counted from 0
partition_at(a, k) == Sort(a)[k + 1]

\* np.median(a) for an odd length: the middle element of the sorted array
median_odd(a) == Sort(a)[(Len(a) - 1) \div 2 + 1]

\* np.where(a == v)[0][0]: the first index, counted from 0, holding v
where_first(a, v) ==
  (CHOOSE i \in 1..Len(a) : a[i] = v /\ \A j \in 1..(i - 1) : a[j] # v) - 1

Min2(x, y) == IF x <= y THEN x ELSE y

\* arg_median returning the index of the upper-middle element alone
arg_median_Upper(a) ==
  IF Len(a) % 2 = 1 THEN where_first(a, median_odd(a))
  ELSE where_first(a, partition_at(a, Len(a) \div 2))

arg_median(a) ==
  IF Len(a) % 2 = 1 THEN where_first(a, median_odd(a))
  ELSE LET l == Len(a) \div 2 - 1
           r == Len(a) \div 2
           left == partition_at(a, l)
           right == partition_at(a, r)
       IN Min2(where_first(a, left), where_first(a, right))

\* ndarray.argmax(): the first index, counted from 0, of the largest entry
argmax(a) ==
  (CHOOSE i \in 1..Len(a) :
     /\ \A j \in 1..Len(a) : a[j] <= a[i]
     /\ \A j \in 1..(i - 1) : a[j] < a[i]) - 1

\* --------------------------------------------------------- _build_results
MaxDraws == 3
MaxLogP == 1
\* the draws of the chain: MaxVal in the last parameter only, in the first
\* only, or nowhere
SampleRows ==
  {[i \in ParIdx |-> IF i = NPar THEN MaxVal ELSE 0],
   [i \in ParIdx |-> IF i = 1 THEN MaxVal ELSE 0],
   [i \in ParIdx |-> 0]}
LogPVals == 0..MaxLogP

\* the index of the representative draw
representative == 
  IF use_median_fit THEN arg_median(log_probability_values)
  ELSE argmax(log_probability_values)

\* the dictionary _build_samples_dictionary builds
samples_dictionary ==
  [i \in ParIdx |-> [r \in 1..Len(raw_samples) |-> raw_samples[r][i]]]

\* restore_median_fit / restore_MAP_fit: the values the parameters get
restore_fit == [i \in ParIdx |-> samples[i][representative + 1]]

\* dic(self): the external routine evaluates get_posterior at a point of its
\* own, which leaves that point, or a part of it, in the parameters
DicTrials == {[i \in ParIdx |-> v] : v \in Vals}

\* the steps of _build_results up to the dic call: [ret, value, log_posteriors]
build_statistics ==
  LET approximate_MAP_point == raw_samples[representative + 1]
      p == _log_prior(approximate_MAP_point, approximate_MAP_point)
      likes == DataValues(p.value)
      raising == {i \in DataIdx : IsRaise(likes[i])}
  IN IF raising # {}
     THEN [ret |-> likes[CHOOSE i \in raising : \A j \in raising : i <= j],
           value |-> p.value, log_posteriors |-> <<>>]
     ELSE [ret |-> NoneVal, value |-> p.value,
           log_posteriors |-> [i \in DataIdx |-> AddF(likes[i], p.ret)]]

\* _build_results without the restore at its end
build_results_NoFinalRestore(val, dic_trial) ==
  IF samples = <<>>
  THEN [ret |-> Raise("TypeError"), value |-> val, mid |-> val, results |-> <<>>]
  ELSE LET s == build_statistics
           d == get_posterior(dic_trial, s.value)
       IN IF IsRaise(s.ret)
          THEN [ret |-> s.ret, value |-> s.value, mid |-> s.value, results |-> <<>>]
          ELSE IF IsRaise(d.ret)
          THEN [ret |-> d.ret, value |-> d.value, mid |-> d.value, results |-> <<>>]
          ELSE [ret |-> NoneVal, value |-> d.value, mid |-> d.value,
                results |-> [point |-> d.value, log_posteriors |-> s.log_posteriors]]

\* _build_results: val are the parameter values it starts from, dic_trial the
\* point the dic routine evaluates; the first restore raises TypeError when
\* _samples is still None
build_results(val, dic_trial) ==
  IF samples = <<>>
  THEN [ret |-> Raise("TypeError"), value |-> val, mid |-> val, results |-> <<>>]
  ELSE LET s == build_statistics
           d == get_posterior(dic_trial, s.value)
       IN IF IsRaise(s.ret)
          THEN [ret |-> s.ret, value |-> s.value, mid |-> s.value, results |-> <<>>]
          ELSE IF IsRaise(d.ret)
          THEN [ret |-> d.ret, value |-> d.value, mid |-> d.value, results |-> <<>>]
          ELSE [ret |-> NoneVal, value |-> restore_fit, mid |-> d.value,
                results |-> [point |-> restore_fit, log_posteriors |-> s.log_posteriors]]

\* a finished sampling run whose samples dictionary is not built yet
InitBuild ==
  /\ value = [i \in ParIdx |-> 1]
  /\ priorKind = [i \in ParIdx |-> IF i % 2 = 1 THEN "custom" ELSE "uniform"]
  /\ \E first \in {"poisson", "fragile"} :
       dsKind = [i \in DataIdx |-> IF i = 1 THEN first ELSE "gauss"]
  /\ dsEdges = [i \in DataIdx |-> 0]
  /\ share_spectrum = FALSE
  /\ NoCall
  /\ \E n \in 1..MaxDraws :
       /\ raw_samples \in SeqsOfLen(SampleRows, n)
       /\ log_probability_values \in SeqsOfLen(LogPVals, n)
  /\ samples = <<>>
  /\ use_median_fit \in BOOLEAN

BuildSamplesDictionary ==
  /\ op = "idle"
  /\ samples' = samples_dictionary
  /\ op' = "_build_samples_dictionary"
  /\ arg' = <<>>
  /\ ret' = NoneVal
  /\ returned' = <<>>
  /\ pre' = value
  /\ likeCalls' = 0
  /\ UNCHANGED <<value, Config, closure, raw_samples, log_probability_values,
                 use_median_fit, mid, results>>

BuildResults ==
  /\ op = "idle"
  /\ \E dic_trial \in DicTrials :
    \E b \in {build_results(value, dic_trial)} :
       /\ op' = "_build_results"
       /\ arg' = <<>>
       /\ ret' = b.ret
       /\ returned' = <<>>
       /\ pre' = value
       /\ value' = b.value
       /\ likeCalls' = 0
       /\ mid' = b.mid
       /\ results' = IF IsRaise(b.ret) THEN results ELSE b.results
       /\ UNCHANGED <<Config, closure, raw_samples, log_probability_values,
                      samples, use_median_fit>>

NextBuild ==
  \/ BuildSamplesDictionary
  \/ BuildResults
  \/ Return

SpecBuild == InitBuild /\ [][NextBuild]_vars

\* ------------------------------------------------ arg_median on any vector
Example == <<3, 1, 4, 1, 5, 9>>

InitMedian ==
  /\ value = [i \in ParIdx |-> 1]
  /\ priorKind = [i \in ParIdx |-> "peaked"]
  /\ dsKind = [i \in DataIdx |-> "gauss"]
  /\ dsEdges = [i \in DataIdx |-> 0]
  /\ share_spectrum = FALSE
  /\ NoCall
  /\ raw_samples = <<>>
  /\ log_probability_values \in SeqsUpTo(LogPVals, 1, MaxDraws + 2) \cup {Example}
  /\ samples = <<>>
  /\ use_median_fit = TRUE

ArgMedian ==
  /\ op = "idle"
  /\ op' = "arg_median"
  /\ arg' = log_probability_values
  /\ ret' = Fin(arg_median(log_probability_values))
  /\ returned' = <<>>
  /\ pre' = value
  /\ likeCalls' = 0
  /\ UNCHANGED <<value, Config, closure, Run>>

NextMedian ==
  \/ ArgMedian
  \/ Return

SpecMedian == InitMedian /\ [][NextMedian]_vars

\* ------------------------------------------- claims on the unit-cube setup
LacksUnitCube == {i \in ParIdx : ~HasUnitCube(priorKind[i])}

\* C6: when a prior lacks from_unit_cube, _construct_unitcube_posterior
\* raises RuntimeError naming the first such parameter, for either value of
\* return_copy, and no closure is handed to the backend
C6_FailsAtConstruction ==
  LacksUnitCube # {} =>
    /\ closure = "none"
    /\ op = "_construct_unitcube_posterior" =>
         ret = RaiseAt("RuntimeError",
                       CHOOSE i \in LacksUnitCube : \A j \in LacksUnitCube : i <= j)

\* --------------------------------------------------- claims on the results
BuildReturned == op = "_build_results" /\ ret = NoneVal

\* C7: when _build_results returns, parameter i holds column i of the row
\* arg_median(log_probability_values) of raw_samples if use_median_fit is
\* set, of the row argmax(log_probability_values) otherwise, whatever the
\* steps before the last restore left in the parameters, and the results
\* object is built at that point
C7_RestoredAtReturn ==
  BuildReturned =>
    LET row == IF use_median_fit THEN arg_median(log_probability_values)
               ELSE argmax(log_probability_values)
    IN /\ \A i \in ParIdx : value[i] = raw_samples[row + 1][i]
       /\ results.point = value

\* a build on the median whose representative row is not the first one and
\* differs from it, after the dic call left other values in the parameters
C7_Witness ==
  /\ BuildReturned
  /\ use_median_fit
  /\ arg_median(log_probability_values) > 0
  /\ raw_samples[arg_median(log_probability_values) + 1] # raw_samples[1]
  /\ mid # value
  /\ value[1] # value[NPar]

\* ------------------------------------------------------ claims on arg_median
\* v has rank k, counted from 0, among the entries of a
HasRank(a, v, k) ==
  /\ Cardinality({i \in 1..Len(a) : a[i] < v}) <= k
  /\ k < Cardinality({i \in 1..Len(a) : a[i] <= v})

\* idx is the first index, counted from 0, of an entry of a equal to v
IsFirstIndexOf(a, idx, v) ==
  /\ idx + 1 \in 1..Len(a)
  /\ a[idx + 1] = v
  /\ \A j \in 1..idx : a[j] # v

\* C8: arg_median(a) is an index of a: for an odd length the first index of
\* the median, for an even length n the smaller of the first indices of the
\* entries of rank n/2-1 and n/2; it is 0 for [3,1,4,1,5,9]
C8_ArgMedian ==
  op = "arg_median" =>
    LET a == arg
        n == Len(a)
        idx == ret.v
        range == {a[i] : i \in 1..n}
    IN /\ ret.k = "fin"
       /\ idx \in 0..(n - 1)
       /\ n % 2 = 1 =>
            \E v \in range : HasRank(a, v, (n - 1) \div 2) /\ IsFirstIndexOf(a, idx, v)
       /\ n % 2 = 0 =>
            \E lo, hi \in range, il, ih \in 0..(n - 1) :
              /\ HasRank(a, lo, n \div 2 - 1)
              /\ HasRank(a, hi, n \div 2)
              /\ IsFirstIndexOf(a, il, lo)
              /\ IsFirstIndexOf(a, ih, hi)
              /\ idx = IF il <= ih THEN il ELSE ih
       /\ a = Example => idx = 0

\* the example of the specification
C8_Witness ==
  /\ op = "arg_median"
  /\ arg = Example
  /\ ret = Fin(0)

====
